---- MODULE Spec2Model ----
(***************************************************************************)
(* Model of En_To_Ch_Charge.py: WordTranslatorApp, the Word document       *)
(* translator.  A run of translate_document reads the document, extracts   *)
(* the non-empty paragraphs, translates them on a thread pool with         *)
(* retries, collects the outcomes in completion order and then inserts     *)
(* one paragraph after each source paragraph.                              *)
(*                                                                         *)
(* Python indices are kept 0-based as values (doc_index, index, doc_idx,   *)
(* attempt); TLA+ sequences are 1-based, so Python's xs[i] is xs[i + 1].   *)
(* A text is a sequence of one-character strings.  The Chinese literals of *)
(* the source are written in ASCII, the original given beside each.        *)
(***************************************************************************)
EXTENDS Integers, Sequences, FiniteSets, TLC

(***************************************************************************)
(* Bounds of the inputs.                                                   *)
(***************************************************************************)
\* longest document body (paragraphs and tables) read from a file
MaxNodes == 4
\* most translatable paragraphs in one document
MaxUnits == 2
\* most paragraphs with text in a document of the collecting loop on its own
MaxTotal == 50

(***************************************************************************)
(* Program constants: WordTranslatorApp.__init__.                          *)
(***************************************************************************)
DefaultMaxWorkers == 15
DefaultMaxRetries == 5
retry_delay == 1

\* The runs of translate_document (threads started by start_translation).
Runs == {1, 2, 3}

None == <<"<None>">>

(***************************************************************************)
(* Texts and documents.                                                    *)
(***************************************************************************)
RECURSIVE LStrip(_)
LStrip(s) == IF s # <<>> /\ Head(s) = " " THEN LStrip(Tail(s)) ELSE s

RECURSIVE RStrip(_)
RStrip(s) ==
    IF s # <<>> /\ s[Len(s)] = " " THEN RStrip(SubSeq(s, 1, Len(s) - 1)) ELSE s

\* str.strip(): leading and trailing whitespace removed
Strip(s) == RStrip(LStrip(s))

\* The text of the k-th child of a body when it is a paragraph with text:
\* texts that str.strip() changes and texts it keeps, repeated two places on.
FileText(k) == IF k % 2 = 1 THEN <<" ", "a">> ELSE <<"b", " ", "c">>

\* A body child: an lxml element.  id is its identity, tag "p" (w:p) or
\* "tbl" (w:tbl).  The k-th child is a paragraph with text when k is in
\* units; otherwise it is, by its place, a paragraph of one space, a table
\* or an empty paragraph.
FileNode(k, units) ==
    [id   |-> k,
     tag  |-> IF k \notin units /\ k % 3 = 2 THEN "tbl" ELSE "p",
     text |-> IF k \in units THEN FileText(k)
              ELSE IF k % 3 = 1 THEN <<" ">> ELSE <<>>]

\* The documents the files hold: every body of at most MaxNodes children of
\* which at most MaxUnits are paragraphs with text.
DocsOfLen(n) ==
    { [k \in 1..n |-> FileNode(k, units)] :
        units \in { u \in SUBSET (1..n) : Cardinality(u) <= MaxUnits } }

Docs == UNION { DocsOfLen(n) : n \in 0..MaxNodes }

\* Document.paragraphs: the body's paragraph children, in document order
Paragraphs(body) == SelectSeq(body, LAMBDA nd : nd.tag = "p")

\* translate_document, lines 188-196: the non-empty paragraphs from the i-th on
RECURSIVE ExtractFrom(_, _)
ExtractFrom(paras, i) ==
    IF i >= Len(paras) THEN <<>>
    ELSE LET text == Strip(paras[i + 1].text)
         IN  (IF text # <<>>
              THEN << [doc_index |-> i, para_obj |-> paras[i + 1].id, text |-> text] >>
              ELSE <<>>) \o ExtractFrom(paras, i + 1)

Extract(body) == ExtractFrom(Paragraphs(body), 0)

\* ParentIndex that answers with the place the element had in the file as it
\* was read, whatever has been inserted since
ParentIndexStale(body, elem) == elem - 1

\* parent.index(para_element): the 0-based place of the element among the
\* children of the body, found by identity
ParentIndex(body, elem) == (CHOOSE k \in 1..Len(body) : body[k].id = elem) - 1

\* ListInsert that puts the new child in the place of the child at pos
ListInsertOver(body, pos, new) ==
    LET at == IF pos > Len(body) THEN Len(body) ELSE pos
    IN  SubSeq(body, 1, at) \o <<new>> \o SubSeq(body, at + 2, Len(body))

\* parent.insert(pos, new): list insertion before 0-based place pos
ListInsert(body, pos, new) ==
    LET at == IF pos > Len(body) THEN Len(body) ELSE pos
    IN  SubSeq(body, 1, at) \o <<new>> \o SubSeq(body, at + 1, Len(body))

\* OxmlElement('w:p') with its run and text: a new element of the tree
NewParagraph(body, text) == [id |-> Len(body) + 1, tag |-> "p", text |-> text]

\* InsertAfter with the "+ 1" of lines 301 and 332 forgotten
InsertBefore(body, elem, text) ==
    ListInsert(body, ParentIndex(body, elem), NewParagraph(body, text))

\* lines 267-301 and 306-332: the new paragraph goes right after para
InsertAfter(body, elem, text) ==
    ListInsert(body, ParentIndex(body, elem) + 1, NewParagraph(body, text))

(***************************************************************************)
(* The translation provider and the retry loop.                            *)
(***************************************************************************)
\* what Translator().translate(text).text returns when the call succeeds
Translate(text) == <<"zh", ":">> \o text

\* the exceptions a provider call raises, as str(e)
Reasons == {"timeout", "http429"}

IntToStr(n) ==
    CASE n = 1 -> "1" [] n = 2 -> "2" [] n = 3 -> "3" [] n = 4 -> "4"
      [] n = 5 -> "5" [] n = 6 -> "6" [] OTHER -> "?"

\* Delay that doubles from the first retry on
DelayShifted(attempt) == retry_delay * (2 ^ (attempt + 1))

\* line 113: delay = self.retry_delay * (2 ** attempt)
Delay(attempt) == retry_delay * (2 ^ attempt)

\* HasNextAttempt with the limit one too low
HasNextAttemptEarly(attempt, retries) == attempt < retries - 2

\* line 111: whether a failed attempt is followed by another one
HasNextAttempt(attempt, retries) == attempt < retries - 1

\* line 118: f"翻译失败（已重试{max_retries}次）: {str(e)}"
RetryError(retries, reason) ==
    <<"translation failed (retried ", IntToStr(retries), " times): ", reason>>

\* lines 124-130: the outcome of a unit whose translation succeeded
SuccessOutcome(index, para_text, translated_text) ==
    [index |-> index, original |-> para_text, translated |-> translated_text,
     success |-> TRUE, error |-> None]

\* FailureOutcome that hands the original text on as the translation
FailureOutcomeEcho(index, para_text, err) ==
    [index |-> index, original |-> para_text, translated |-> para_text,
     success |-> FALSE, error |-> err]

\* lines 132-138: the outcome of a unit whose translation raised
FailureOutcome(index, para_text, err) ==
    [index |-> index, original |-> para_text, translated |-> None,
     success |-> FALSE, error |-> err]

\* FailureMarker that leaves the inserted paragraph without text
FailureMarkerEmpty(err) == <<>>

\* line 327: f"[翻译失败: {result['error']}]"
FailureMarker(err) == <<"[translation failed: ">> \o err \o <<"]">>

\* lines 295 and 327: the text of the paragraph inserted for an outcome
InsertedText(result) ==
    IF result.success THEN result.translated ELSE FailureMarker(result.error)

(***************************************************************************)
(* Line 227 in Python's arithmetic: completed_count / total is a float (an *)
(* IEEE 754 double: the quotient rounded to 53 significant bits, ties to   *)
(* even), * 100 is a float product rounded the same way, and int()         *)
(* truncates.  A positive double is [h, m, l, e]: its 53-bit significand   *)
(* is h * 2^36 + m * 2^18 + l, with 2^16 <= h < 2^17 and m, l < 2^18, and  *)
(* its value is the significand times 2^e.                                 *)
(***************************************************************************)
RECURSIVE Pow2(_)
Pow2(n) == IF n = 0 THEN 1 ELSE 2 * Pow2(n - 1)

LimbBits == 18
Limb == Pow2(LimbBits)
TopBits == 17
Top == Pow2(TopBits)

\* the least p with a * 2^p >= b: the quotient a / b has its leading bit at
\* 2^(-p)
RECURSIVE LeadShift(_, _)
LeadShift(a, b) == IF a >= b THEN 0 ELSE 1 + LeadShift(2 * a, b)

\* round to nearest, ties to even: x holds the bits kept, guard is the first
\* bit dropped, sticky whether anything but zeros follows it
RoundNearestEven(x, guard, sticky) ==
    IF guard = 1 /\ (sticky \/ x.l % 2 = 1)
    THEN IF x.l + 1 < Limb THEN [x EXCEPT !.l = @ + 1]
         ELSE IF x.m + 1 < Limb THEN [x EXCEPT !.l = 0, !.m = @ + 1]
         ELSE IF x.h + 1 < Top THEN [x EXCEPT !.l = 0, !.m = 0, !.h = @ + 1]
         ELSE [h |-> Top \div 2, m |-> 0, l |-> 0, e |-> x.e + 1]
    ELSE x

\* a / b of two positive ints, b < 2^13 (int.__truediv__): the double
\* nearest to the quotient, by long division 16, 18 and 18 bits at a time
TrueDiv(a, b) ==
    LET p  == LeadShift(a, b)
        r0 == a * Pow2(p) - b
        n1 == r0 * Pow2(TopBits - 1)
        n2 == (n1 % b) * Limb
        n3 == (n2 % b) * Limb
        r3 == n3 % b
    IN  RoundNearestEven(
            [h |-> Top \div 2 + n1 \div b, m |-> n2 \div b, l |-> n3 \div b,
             e |-> 0 - p - 52],
            IF 2 * r3 >= b THEN 1 ELSE 0,
            (2 * r3) % b # 0)

\* x * c of a double and an int c with 64 <= c < 128 (float.__mul__ after
\* the int is converted, which is exact): the double nearest to the product
FloatTimes(x, c) ==
    LET l1   == x.l * c
        m1   == x.m * c + l1 \div Limb
        h1   == x.h * c + m1 \div Limb
        \* the product is h1 * 2^36 + (m1 % Limb) * 2^18 + l1 % Limb
        drop == IF h1 \div Pow2(6) < Top THEN 6 ELSE 7
        cut  == Pow2(drop)
        keep == Pow2(LimbBits - drop)
        low  == l1 % Limb
        mid  == m1 % Limb
    IN  RoundNearestEven(
            [h |-> h1 \div cut,
             m |-> (h1 % cut) * keep + mid \div cut,
             l |-> (mid % cut) * keep + low \div cut,
             e |-> x.e + drop],
            (low \div (cut \div 2)) % 2,
            low % (cut \div 2) # 0)

\* int(x) of a positive double below 2^17: the bits above the binary point,
\* all of which are in h
FloatToInt(x) ==
    LET shift == 0 - x.e - 2 * LimbBits
    IN  IF shift >= TopBits THEN 0 ELSE x.h \div Pow2(shift)

\* line 227: int(completed_count / total * 100)
PercentFloat(completed, total) ==
    IF completed = 0 THEN 0
    ELSE FloatToInt(FloatTimes(TrueDiv(completed, total), 100))

\* PercentFloat for every count of every total up to MaxTotal, computed once
PercentTable ==
    [t \in 1..MaxTotal |-> [k \in 0..t |-> PercentFloat(k, t)]]

\* line 227, read from the table where the table has it
Percent(completed, total) ==
    IF total \in DOMAIN PercentTable /\ completed \in DOMAIN PercentTable[total]
    THEN PercentTable[total][completed]
    ELSE PercentFloat(completed, total)

\* BuildMap keyed by the unit's index i instead of its doc_index
BuildMapByIndex(data, res) == [i \in 0..(Len(data) - 1) |-> res[i]]

\* lines 250-252: translation_map[item['doc_index']] = results[i]
BuildMap(data, res) ==
    [d \in { data[k].doc_index : k \in 1..Len(data) } |->
        res[(CHOOSE k \in 1..Len(data) : data[k].doc_index = d) - 1]]

(***************************************************************************)
(* State.                                                                  *)
(***************************************************************************)
VARIABLES
    \* WordTranslatorApp attributes
    input_file,       \* the selected file: [selected, readable, body]
    translated_doc,   \* the Document to export: the run that built it, 0 for None
    original_doc,     \* the Document being translated: the run that built it, 0 unset
    is_translating,
    max_workers,
    max_retries,
    translate_btn,    \* "normal" or "disabled"
    export_btn,
    uiq,              \* the button callbacks queued with root.after(0, ...),
                      \* oldest first; the callbacks of update_ui and
                      \* show_current_text only write the display: update_ui is
                      \* kept as the progress it reports, show_current_text not
    \* the Document objects: doc[r] is the body of the Document run r built
    doc,
    \* the locals of each translate_document thread
    pc,
    loaded,           \* the body as Document(self.input_file) returned it
    paragraph_data,
    futures,          \* the futures submitted to the executor, by unit
    results,
    completed_count,
    progress,         \* the percentages passed to update_ui, oldest first
    translation_map,
    doc_paragraphs,   \* the elements of list(self.original_doc.paragraphs)
    parent,           \* the Document those elements belong to
    doc_idx,
    success_count,
    failed_count,
    summary,          \* the counts of the final summary (line 340)
    \* what the program has done so far
    saved,            \* the body export_document wrote last (line 379), or None
    aborted           \* the runs whose handler has run (lines 347-350)

config   == <<max_workers, max_retries>>
buttons  == <<translate_btn, export_btn>>
attrs    == <<input_file, translated_doc, original_doc, is_translating>>
extract  == <<loaded, paragraph_data>>
dispatch == <<futures, results, completed_count>>
mutation == <<translation_map, doc_paragraphs, parent, doc_idx,
              success_count, failed_count>>
history  == <<saved, aborted>>

vars == <<config, history, buttons, uiq, attrs, doc, pc, extract, dispatch, progress,
          mutation, summary>>

NoOutcome == [index |-> -1, original |-> None, translated |-> None,
              success |-> FALSE, error |-> None]
NoSummary == [success |-> -1, failed |-> -1]
NoFile    == [selected |-> FALSE, readable |-> FALSE, body |-> <<>>]

\* The files select_file can choose: a document, or a file python-docx
\* cannot read.
Files ==
    { [selected |-> TRUE, readable |-> TRUE, body |-> d] : d \in Docs }
    \cup { [selected |-> TRUE, readable |-> FALSE, body |-> <<>>] }

\* The configurations: small pools and retry limits, and the configuration
\* __init__ sets (lines 33-34).
Configs ==
    ({1, 2} \X {1, 2}) \cup { <<DefaultMaxWorkers, DefaultMaxRetries>> }

\* NewFuture with the units counted from 1
NewFutureFromOne(index, para_text) ==
    [index |-> index + 1, para_text |-> para_text, st |-> "queued",
     attempt |-> 0, calls |-> 0, waits |-> <<>>, result |-> NoOutcome]

\* A future and the translate_paragraph call behind it.  st: "queued" (in
\* the executor's work queue), "call" (a provider call of attempt `attempt`
\* is under way), "sleep" (time.sleep of the backoff), "finished" (the
\* outcome is set), "yielded" (as_completed has handed it to the loop).
\* calls counts the provider calls that returned or raised, waits lists the
\* delays slept.
\* index and para_text are the arguments given to submit.
NewFuture(index, para_text) ==
    [index |-> index, para_text |-> para_text, st |-> "queued", attempt |-> 0,
     calls |-> 0, waits |-> <<>>, result |-> NoOutcome]

total(r) == Len(paragraph_data[r])

\* the calls running on a pool thread: started and without an outcome yet
InFlight(r) ==
    { k \in 1..Len(futures[r]) : futures[r][k].st \in {"call", "sleep"} }

\* __init__ (lines 27-35) and create_widgets (lines 68-75)
InitApp ==
    /\ input_file = NoFile
    /\ translated_doc = 0
    /\ original_doc = 0
    /\ is_translating = FALSE
    /\ \E c \in Configs : max_workers = c[1] /\ max_retries = c[2]
    /\ translate_btn = "disabled"
    /\ export_btn = "disabled"
    /\ uiq = <<>>

InitRuns ==
    /\ doc = [r \in Runs |-> <<>>]
    /\ loaded = [r \in Runs |-> <<>>]
    /\ paragraph_data = [r \in Runs |-> <<>>]
    /\ futures = [r \in Runs |-> <<>>]
    /\ results = [r \in Runs |-> <<>>]
    /\ completed_count = [r \in Runs |-> 0]
    /\ progress = [r \in Runs |-> <<>>]
    /\ translation_map = [r \in Runs |-> <<>>]
    /\ doc_paragraphs = [r \in Runs |-> <<>>]
    /\ parent = [r \in Runs |-> 0]
    /\ doc_idx = [r \in Runs |-> 0]
    /\ success_count = [r \in Runs |-> 0]
    /\ failed_count = [r \in Runs |-> 0]
    /\ summary = [r \in Runs |-> NoSummary]
    /\ saved = None
    /\ aborted = {}

\* One run: a file has been selected (select_file, lines 147-150) and
\* start_translation (lines 164-175) has just started the thread of run 1.
Init ==
    /\ input_file \in Files
    /\ translated_doc = 0
    /\ original_doc = 0
    /\ is_translating = TRUE
    /\ \E c \in Configs : max_workers = c[1] /\ max_retries = c[2]
    /\ translate_btn = "disabled"
    /\ export_btn = "disabled"
    /\ uiq = <<>>
    /\ InitRuns
    /\ pc = [r \in Runs |-> IF r = 1 THEN "read" ELSE "idle"]

(***************************************************************************)
(* translate_document, run r.                                              *)
(***************************************************************************)
\* lines 181-182: update_ui(..., 0); doc = Document(self.input_file)
Read(r) ==
    /\ pc[r] = "read"
    /\ progress' = [progress EXCEPT ![r] = Append(@, 0)]
    /\ IF input_file.readable
       THEN /\ doc' = [doc EXCEPT ![r] = input_file.body]
            /\ loaded' = [loaded EXCEPT ![r] = input_file.body]
            /\ pc' = [pc EXCEPT ![r] = "bind"]
       ELSE /\ pc' = [pc EXCEPT ![r] = "except"]
            /\ UNCHANGED <<doc, loaded>>
    /\ UNCHANGED <<config, history, buttons, uiq, attrs, paragraph_data, dispatch,
                   mutation, summary>>

\* lines 185-211: self.original_doc = doc; the extraction; total; the
\* announcement of the dispatch when there is something to translate
Bind(r) ==
    /\ pc[r] = "bind"
    /\ original_doc' = r
    /\ paragraph_data' = [paragraph_data EXCEPT ![r] = Extract(doc[r])]
    /\ IF Len(Extract(doc[r])) = 0
       THEN /\ pc' = [pc EXCEPT ![r] = "empty"]
            /\ UNCHANGED progress
       ELSE /\ pc' = [pc EXCEPT ![r] = "submit"]
            /\ progress' = [progress EXCEPT ![r] = Append(@, 0)]
    /\ UNCHANGED <<config, history, buttons, uiq, input_file, translated_doc,
                   is_translating, doc, loaded, dispatch, mutation, summary>>

\* lines 201-202: nothing to translate; self.is_translating = False
Empty(r) ==
    /\ pc[r] = "empty"
    /\ progress' = [progress EXCEPT ![r] = Append(@, 0)]
    /\ is_translating' = FALSE
    /\ pc' = [pc EXCEPT ![r] = "empty_after"]
    /\ UNCHANGED <<config, history, buttons, uiq, input_file, translated_doc,
                   original_doc, doc, extract, dispatch, mutation, summary>>

\* lines 203-204: root.after(0, enable translate_btn); return
EmptyAfter(r) ==
    /\ pc[r] = "empty_after"
    /\ uiq' = Append(uiq, "translate_btn")
    /\ pc' = [pc EXCEPT ![r] = "finally"]
    /\ UNCHANGED <<config, history, buttons, attrs, doc, extract, dispatch, progress,
                   mutation, summary>>

\* lines 215-218: executor.submit(self.translate_paragraph, i, item['text'])
\* for the next unit; after the last one the as_completed loop begins
Submit(r) ==
    /\ pc[r] = "submit"
    /\ LET i == Len(futures[r])
       IN  futures' = [futures EXCEPT ![r] =
               Append(@, NewFuture(i, paragraph_data[r][i + 1].text))]
    /\ pc' = [pc EXCEPT ![r] =
                IF Len(futures[r]) + 1 = total(r) THEN "collect" ELSE "submit"]
    /\ UNCHANGED <<config, history, buttons, uiq, attrs, doc, extract, results,
                   completed_count, progress, mutation, summary>>

\* CanStart of a pool that starts a thread for every submitted call
CanStartUncapped(r, k) ==
    /\ futures[r][k].st = "queued"
    /\ \A j \in 1..(k - 1) : futures[r][j].st # "queued"

\* CanStart of a pool that keeps one of its max_workers threads back
CanStartShort(r, k) ==
    /\ futures[r][k].st = "queued"
    /\ \A j \in 1..(k - 1) : futures[r][j].st # "queued"
    /\ Cardinality(InFlight(r)) < max_workers - 1

\* ThreadPoolExecutor(max_workers=...): whether a pool thread can take the
\* k-th future: it is the oldest of the work queue and fewer than max_workers
\* calls are running
CanStart(r, k) ==
    /\ futures[r][k].st = "queued"
    /\ \A j \in 1..(k - 1) : futures[r][j].st # "queued"
    /\ Cardinality(InFlight(r)) < max_workers

\* a pool thread takes the future and calls translate_paragraph, which
\* enters translate_with_retry: attempt 0 (lines 104-108)
Start(r, k) ==
    /\ k \in 1..Len(futures[r])
    /\ CanStart(r, k)
    /\ futures' = [futures EXCEPT ![r][k].st = "call"]
    /\ UNCHANGED <<config, history, buttons, uiq, attrs, doc, pc, extract, results,
                   completed_count, progress, mutation, summary>>

\* AttemptOk of a worker that inserts its translation into the document itself
AttemptOkInserting(r, k) ==
    /\ k \in 1..Len(futures[r])
    /\ futures[r][k].st = "call"
    /\ futures' = [futures EXCEPT ![r][k] =
          [@ EXCEPT !.st = "finished",
                    !.calls = @ + 1,
                    !.result = SuccessOutcome(futures[r][k].index,
                                   futures[r][k].para_text,
                                   Translate(futures[r][k].para_text))]]
    /\ doc' = [doc EXCEPT ![r] =
          InsertAfter(@, paragraph_data[r][k].para_obj,
                      Translate(futures[r][k].para_text))]
    /\ UNCHANGED <<config, history, buttons, uiq, attrs, pc, extract, results,
                   completed_count, progress, mutation, summary>>

\* lines 108-109 and 124-130: the provider call returns; the outcome is set
AttemptOk(r, k) ==
    /\ k \in 1..Len(futures[r])
    /\ futures[r][k].st = "call"
    /\ futures' = [futures EXCEPT ![r][k] =
          [@ EXCEPT !.st = "finished",
                    !.calls = @ + 1,
                    !.result = SuccessOutcome(futures[r][k].index,
                                   futures[r][k].para_text,
                                   Translate(futures[r][k].para_text))]]
    /\ UNCHANGED <<config, history, buttons, uiq, attrs, doc, pc, extract, results,
                   completed_count, progress, mutation, summary>>

\* lines 110-115: the provider call raises and another attempt follows
AttemptRetry(r, k) ==
    /\ k \in 1..Len(futures[r])
    /\ futures[r][k].st = "call"
    /\ HasNextAttempt(futures[r][k].attempt, max_retries)
    /\ futures' = [futures EXCEPT ![r][k] =
          [@ EXCEPT !.st = "sleep",
                    !.calls = @ + 1,
                    !.waits = Append(@, Delay(futures[r][k].attempt))]]
    /\ UNCHANGED <<config, history, buttons, uiq, attrs, doc, pc, extract, results,
                   completed_count, progress, mutation, summary>>

\* line 115 and 104: time.sleep(delay) ends; the next attempt calls
Wake(r, k) ==
    /\ k \in 1..Len(futures[r])
    /\ futures[r][k].st = "sleep"
    /\ futures' = [futures EXCEPT ![r][k] =
          [@ EXCEPT !.st = "call", !.attempt = @ + 1]]
    /\ UNCHANGED <<config, history, buttons, uiq, attrs, doc, pc, extract, results,
                   completed_count, progress, mutation, summary>>

\* lines 116-118 and 131-138: the last attempt raises; translate_with_retry
\* raises and translate_paragraph returns the failure outcome
AttemptGiveUp(r, k, reason) ==
    /\ k \in 1..Len(futures[r])
    /\ futures[r][k].st = "call"
    /\ ~HasNextAttempt(futures[r][k].attempt, max_retries)
    /\ futures' = [futures EXCEPT ![r][k] =
          [@ EXCEPT !.st = "finished",
                    !.calls = @ + 1,
                    !.result = FailureOutcome(futures[r][k].index,
                                   futures[r][k].para_text,
                                   RetryError(max_retries, reason))]]
    /\ UNCHANGED <<config, history, buttons, uiq, attrs, doc, pc, extract, results,
                   completed_count, progress, mutation, summary>>

\* lines 221-229: as_completed yields a finished future; its outcome is
\* stored under its index, counted and reported
Collect(r, k) ==
    /\ pc[r] = "collect"
    /\ k \in 1..Len(futures[r])
    /\ futures[r][k].st = "finished"
    /\ futures' = [futures EXCEPT ![r][k].st = "yielded"]
    /\ results' = [results EXCEPT ![r] =
          (futures[r][k].result.index :> futures[r][k].result) @@ @]
    /\ completed_count' = [completed_count EXCEPT ![r] = @ + 1]
    /\ progress' = [progress EXCEPT ![r] =
          Append(@, Percent(completed_count[r] + 1, total(r)))]
    /\ UNCHANGED <<config, history, buttons, uiq, attrs, doc, pc, extract, mutation,
                   summary>>

\* Drained of a loop that stops at the first failed outcome
DrainedFailFast(r) ==
    \/ \A k \in 1..Len(futures[r]) : futures[r][k].st = "yielded"
    \/ \E k \in 1..Len(futures[r]) :
          futures[r][k].st = "yielded" /\ ~futures[r][k].result.success

\* whether as_completed is exhausted: every future has been yielded
Drained(r) == \A k \in 1..Len(futures[r]) : futures[r][k].st = "yielded"

\* the with block ends (the executor shuts down); lines 246-256: the
\* counters, the translation_map and the list of the paragraphs of
\* self.original_doc.  results[i] of a missing i raises KeyError (line 252),
\* which the handler of the run catches.
Reconcile(r) ==
    /\ pc[r] = "collect"
    /\ Drained(r)
    /\ success_count' = [success_count EXCEPT ![r] = 0]
    /\ failed_count' = [failed_count EXCEPT ![r] = 0]
    /\ IF \A i \in 0..(total(r) - 1) : i \in DOMAIN results[r]
       THEN /\ translation_map' = [translation_map EXCEPT ![r] =
                                      BuildMap(paragraph_data[r], results[r])]
            /\ parent' = [parent EXCEPT ![r] = original_doc]
            /\ LET paras == Paragraphs(doc[original_doc])
               IN  /\ doc_paragraphs' = [doc_paragraphs EXCEPT ![r] =
                                            [k \in 1..Len(paras) |-> paras[k].id]]
                   /\ doc_idx' = [doc_idx EXCEPT ![r] = Len(paras) - 1]
            /\ pc' = [pc EXCEPT ![r] = "mutate"]
       ELSE /\ pc' = [pc EXCEPT ![r] = "except"]
            /\ UNCHANGED <<translation_map, parent, doc_paragraphs, doc_idx>>
    /\ UNCHANGED <<config, history, buttons, uiq, attrs, doc, extract, dispatch,
                   progress, summary>>

\* Mutate of a loop that takes the paragraphs from the first one up: its
\* round number doc_idx handles the paragraph at that distance from the start
MutateFromFirst(r) ==
    /\ pc[r] = "mutate"
    /\ doc_idx[r] >= 0
    /\ LET at == Len(doc_paragraphs[r]) - 1 - doc_idx[r]
       IN  IF at \in DOMAIN translation_map[r]
           THEN LET result == translation_map[r][at]
                    para   == doc_paragraphs[r][at + 1]
                IN  /\ doc' = [doc EXCEPT ![parent[r]] =
                                  InsertAfter(@, para, InsertedText(result))]
                    /\ success_count' = [success_count EXCEPT ![r] =
                                            IF result.success THEN @ + 1 ELSE @]
                    /\ failed_count' = [failed_count EXCEPT ![r] =
                                           IF result.success THEN @ ELSE @ + 1]
           ELSE UNCHANGED <<doc, success_count, failed_count>>
    /\ doc_idx' = [doc_idx EXCEPT ![r] = @ - 1]
    /\ UNCHANGED <<config, history, buttons, uiq, attrs, pc, extract, dispatch,
                   progress, translation_map, doc_paragraphs, parent, summary>>

\* lines 259-334: one round of the loop over doc_idx, from the last
\* paragraph down: a paragraph of the map gets its new paragraph after it
Mutate(r) ==
    /\ pc[r] = "mutate"
    /\ doc_idx[r] >= 0
    /\ IF doc_idx[r] \in DOMAIN translation_map[r]
       THEN LET result == translation_map[r][doc_idx[r]]
                para   == doc_paragraphs[r][doc_idx[r] + 1]
            IN  /\ doc' = [doc EXCEPT ![parent[r]] =
                              InsertAfter(@, para, InsertedText(result))]
                /\ success_count' = [success_count EXCEPT ![r] =
                                        IF result.success THEN @ + 1 ELSE @]
                /\ failed_count' = [failed_count EXCEPT ![r] =
                                       IF result.success THEN @ ELSE @ + 1]
       ELSE UNCHANGED <<doc, success_count, failed_count>>
    /\ doc_idx' = [doc_idx EXCEPT ![r] = @ - 1]
    /\ UNCHANGED <<config, history, buttons, uiq, attrs, pc, extract, dispatch,
                   progress, translation_map, doc_paragraphs, parent, summary>>

\* line 337: self.translated_doc = self.original_doc, once the loop is over
Save(r) ==
    /\ pc[r] = "mutate"
    /\ doc_idx[r] < 0
    /\ translated_doc' = original_doc
    /\ pc' = [pc EXCEPT ![r] = "summary"]
    /\ UNCHANGED <<config, history, buttons, uiq, input_file, original_doc,
                   is_translating, doc, extract, dispatch, progress, mutation,
                   summary>>

\* Summary with the two counts exchanged
SummarySwapped(r) ==
    /\ pc[r] = "summary"
    /\ summary' = [summary EXCEPT ![r] =
                      [success |-> failed_count[r], failed |-> success_count[r]]]
    /\ progress' = [progress EXCEPT ![r] = Append(@, 100)]
    /\ uiq' = Append(uiq, "export_btn")
    /\ pc' = [pc EXCEPT ![r] = "finally"]
    /\ UNCHANGED <<config, history, buttons, attrs, doc, extract, dispatch, mutation>>

\* lines 340-345: the summary, update_ui(summary, 100) and
\* root.after(0, enable export_btn)
Summary(r) ==
    /\ pc[r] = "summary"
    /\ summary' = [summary EXCEPT ![r] =
                      [success |-> success_count[r], failed |-> failed_count[r]]]
    /\ progress' = [progress EXCEPT ![r] = Append(@, 100)]
    /\ uiq' = Append(uiq, "export_btn")
    /\ pc' = [pc EXCEPT ![r] = "finally"]
    /\ UNCHANGED <<config, history, buttons, attrs, doc, extract, dispatch, mutation>>

\* lines 347-350: the handler of an exception of the run
Except(r) ==
    /\ pc[r] = "except"
    /\ progress' = [progress EXCEPT ![r] = Append(@, 0)]
    /\ aborted' = aborted \cup {r}
    /\ pc' = [pc EXCEPT ![r] = "finally"]
    /\ UNCHANGED <<config, saved, buttons, uiq, attrs, doc, extract, dispatch,
                   mutation, summary>>

\* Finally of a finally block without line 353: the flag stays as it is
FinallyKeeps(r) ==
    /\ pc[r] = "finally"
    /\ pc' = [pc EXCEPT ![r] = "finally_after"]
    /\ UNCHANGED <<config, history, buttons, uiq, attrs, doc, extract, dispatch,
                   progress, mutation, summary>>

\* line 353: self.is_translating = False
Finally(r) ==
    /\ pc[r] = "finally"
    /\ is_translating' = FALSE
    /\ pc' = [pc EXCEPT ![r] = "finally_after"]
    /\ UNCHANGED <<config, history, buttons, uiq, input_file, translated_doc,
                   original_doc, doc, extract, dispatch, progress, mutation,
                   summary>>

\* line 354: root.after(0, enable translate_btn); the thread ends
FinallyAfter(r) ==
    /\ pc[r] = "finally_after"
    /\ uiq' = Append(uiq, "translate_btn")
    /\ pc' = [pc EXCEPT ![r] = "done"]
    /\ UNCHANGED <<config, history, buttons, attrs, doc, extract, dispatch, progress,
                   mutation, summary>>

(***************************************************************************)
(* The Tk main loop.                                                       *)
(***************************************************************************)
\* the oldest callback queued with root.after(0, ...) runs (lines 203,
\* 345, 354): the button is set to tk.NORMAL
UiCallback ==
    /\ uiq # <<>>
    /\ uiq' = Tail(uiq)
    /\ translate_btn' = IF Head(uiq) = "translate_btn" THEN "normal"
                        ELSE translate_btn
    /\ export_btn' = IF Head(uiq) = "export_btn" THEN "normal" ELSE export_btn
    /\ UNCHANGED <<config, history, attrs, doc, pc, extract, dispatch, progress,
                   mutation, summary>>

\* the steps of the thread of run r and of the pool threads it started
RunStep(r) ==
    \/ Read(r)
    \/ Bind(r)
    \/ Empty(r)
    \/ EmptyAfter(r)
    \/ Submit(r)
    \/ \E k \in DOMAIN futures[r] : Start(r, k)
    \/ \E k \in DOMAIN futures[r] : AttemptOk(r, k)
    \/ \E k \in DOMAIN futures[r] : AttemptRetry(r, k)
    \/ \E k \in DOMAIN futures[r] : Wake(r, k)
    \/ \E k \in DOMAIN futures[r], reason \in Reasons : AttemptGiveUp(r, k, reason)
    \/ \E k \in DOMAIN futures[r] : Collect(r, k)
    \/ Reconcile(r)
    \/ Mutate(r)
    \/ Save(r)
    \/ Summary(r)
    \/ Except(r)
    \/ Finally(r)
    \/ FinallyAfter(r)

Next == (\E r \in Runs : RunStep(r)) \/ UiCallback

Spec == Init /\ [][Next]_vars

(***************************************************************************)
(* The same run with the loop of line 259 turned round: a mutation pass    *)
(* that is the one of lines 254-337 except that doc_idx goes over          *)
(* range(len(doc_paragraphs)), from the first paragraph to the last.       *)
(***************************************************************************)
\* lines 246-256 before the turned loop: doc_idx starts at 0
ReconcileAscending(r) ==
    /\ pc[r] = "collect"
    /\ Drained(r)
    /\ success_count' = [success_count EXCEPT ![r] = 0]
    /\ failed_count' = [failed_count EXCEPT ![r] = 0]
    /\ IF \A i \in 0..(total(r) - 1) : i \in DOMAIN results[r]
       THEN /\ translation_map' = [translation_map EXCEPT ![r] =
                                      BuildMap(paragraph_data[r], results[r])]
            /\ parent' = [parent EXCEPT ![r] = original_doc]
            /\ LET paras == Paragraphs(doc[original_doc])
               IN  doc_paragraphs' = [doc_paragraphs EXCEPT ![r] =
                                         [k \in 1..Len(paras) |-> paras[k].id]]
            /\ doc_idx' = [doc_idx EXCEPT ![r] = 0]
            /\ pc' = [pc EXCEPT ![r] = "mutate"]
       ELSE /\ pc' = [pc EXCEPT ![r] = "except"]
            /\ UNCHANGED <<translation_map, parent, doc_paragraphs, doc_idx>>
    /\ UNCHANGED <<config, history, buttons, uiq, attrs, doc, extract, dispatch,
                   progress, summary>>

\* lines 260-334 in a round of the turned loop: the body of the loop is the
\* program's, the next doc_idx is the one above
MutateAscending(r) ==
    /\ pc[r] = "mutate"
    /\ doc_idx[r] < Len(doc_paragraphs[r])
    /\ IF doc_idx[r] \in DOMAIN translation_map[r]
       THEN LET result == translation_map[r][doc_idx[r]]
                para   == doc_paragraphs[r][doc_idx[r] + 1]
            IN  /\ doc' = [doc EXCEPT ![parent[r]] =
                              InsertAfter(@, para, InsertedText(result))]
                /\ success_count' = [success_count EXCEPT ![r] =
                                        IF result.success THEN @ + 1 ELSE @]
                /\ failed_count' = [failed_count EXCEPT ![r] =
                                       IF result.success THEN @ ELSE @ + 1]
       ELSE UNCHANGED <<doc, success_count, failed_count>>
    /\ doc_idx' = [doc_idx EXCEPT ![r] = @ + 1]
    /\ UNCHANGED <<config, history, buttons, uiq, attrs, pc, extract, dispatch,
                   progress, translation_map, doc_paragraphs, parent, summary>>

\* line 337 once the turned loop is over
SaveAscending(r) ==
    /\ pc[r] = "mutate"
    /\ doc_idx[r] >= Len(doc_paragraphs[r])
    /\ translated_doc' = original_doc
    /\ pc' = [pc EXCEPT ![r] = "summary"]
    /\ UNCHANGED <<config, history, buttons, uiq, input_file, original_doc,
                   is_translating, doc, extract, dispatch, progress, mutation,
                   summary>>

RunStepAscending(r) ==
    \/ Read(r)
    \/ Bind(r)
    \/ Empty(r)
    \/ EmptyAfter(r)
    \/ Submit(r)
    \/ \E k \in DOMAIN futures[r] : Start(r, k)
    \/ \E k \in DOMAIN futures[r] : AttemptOk(r, k)
    \/ \E k \in DOMAIN futures[r] : AttemptRetry(r, k)
    \/ \E k \in DOMAIN futures[r] : Wake(r, k)
    \/ \E k \in DOMAIN futures[r], reason \in Reasons : AttemptGiveUp(r, k, reason)
    \/ \E k \in DOMAIN futures[r] : Collect(r, k)
    \/ ReconcileAscending(r)
    \/ MutateAscending(r)
    \/ SaveAscending(r)
    \/ Summary(r)
    \/ Except(r)
    \/ Finally(r)
    \/ FinallyAfter(r)

NextAscending == (\E r \in Runs : RunStepAscending(r)) \/ UiCallback

SpecAscending == Init /\ [][NextAscending]_vars

(***************************************************************************)
(* The application: the window after __init__, the handlers of its buttons *)
(* on the Tk main loop, and the translate_document threads they start.     *)
(***************************************************************************)
MaxAppNodes == 1
AppMaxWorkers == 1
AppMaxRetries == 1

\* the files the user picks in the application: the unreadable one and the
\* documents of at most MaxAppNodes children, each a paragraph with text
AppFiles ==
    { f \in Files :
        /\ Len(f.body) <= MaxAppNodes
        /\ \A k \in DOMAIN f.body : f.body[k] = FileNode(k, DOMAIN f.body) }

\* the steps of the thread of run r and of its pool threads when every
\* unit gets AppMaxRetries = 1 attempt: line 109 then never lets an attempt
\* be followed by a sleep and another, so RunStep's retry and wake are left
\* out
RunStepOnce(r) ==
    \/ Read(r)
    \/ Bind(r)
    \/ Empty(r)
    \/ EmptyAfter(r)
    \/ Submit(r)
    \/ \E k \in DOMAIN futures[r] : Start(r, k)
    \/ \E k \in DOMAIN futures[r] : AttemptOk(r, k)
    \/ \E k \in DOMAIN futures[r], reason \in Reasons : AttemptGiveUp(r, k, reason)
    \/ \E k \in DOMAIN futures[r] : Collect(r, k)
    \/ Reconcile(r)
    \/ Mutate(r)
    \/ Save(r)
    \/ Summary(r)
    \/ Except(r)
    \/ Finally(r)
    \/ FinallyAfter(r)

\* the window as __init__ and create_widgets leave it, with a pool of
\* AppMaxWorkers threads and AppMaxRetries attempts; no thread started
InitWindow ==
    /\ InitApp
    /\ max_workers = AppMaxWorkers
    /\ max_retries = AppMaxRetries
    /\ InitRuns
    /\ pc = [r \in Runs |-> "idle"]

\* select_file, lines 141-150, when the dialog returns a file name: the
\* file is kept and the translate button enabled.  (A cancelled dialog
\* changes nothing.)
SelectFile(f) ==
    /\ input_file' = f
    /\ translate_btn' = "normal"
    /\ UNCHANGED <<config, history, export_btn, uiq, translated_doc,
                   original_doc, is_translating, doc, pc, extract, dispatch,
                   progress, mutation, summary>>

\* start_translation, lines 154-175, called by the translate button, which
\* calls it only while enabled.  With is_translating set or no file chosen
\* it shows a warning and returns (lines 156-162), which changes nothing;
\* otherwise it disables both buttons, sets is_translating and starts the
\* thread of the next run.
StartTranslation ==
    /\ translate_btn = "normal"
    /\ ~is_translating
    /\ input_file.selected
    /\ \E r \in Runs :
          /\ pc[r] = "idle"
          /\ \A q \in Runs : q < r => pc[q] # "idle"
          /\ pc' = [pc EXCEPT ![r] = "read"]
    /\ translate_btn' = "disabled"
    /\ export_btn' = "disabled"
    /\ is_translating' = TRUE
    /\ UNCHANGED <<config, history, uiq, input_file, translated_doc,
                   original_doc, doc, extract, dispatch, progress, mutation,
                   summary>>

\* export_document, lines 368-392, called by the export button while it is
\* enabled, when the dialog returns a file name: self.translated_doc is
\* written as it is at that moment.  Without a translated_doc it shows a
\* warning and returns (lines 370-372).
ExportDocument ==
    /\ export_btn = "normal"
    /\ translated_doc # 0
    /\ saved' = doc[translated_doc]
    /\ UNCHANGED <<config, aborted, buttons, uiq, attrs, doc, pc, extract,
                   dispatch, progress, mutation, summary>>

\* lines 295 and 327 in a round that inserts: text_element.text = ... raises
\* when the text is one XML cannot hold (lxml refuses control characters);
\* the round ends before its insertion and the handler of the run follows
MutateRaise(r) ==
    /\ pc[r] = "mutate"
    /\ doc_idx[r] >= 0
    /\ doc_idx[r] \in DOMAIN translation_map[r]
    /\ pc' = [pc EXCEPT ![r] = "except"]
    /\ UNCHANGED <<config, history, buttons, uiq, attrs, doc, extract,
                   dispatch, progress, mutation, summary>>

NextApp ==
    \/ \E r \in Runs : RunStepOnce(r)
    \/ UiCallback
    \/ \E f \in AppFiles : SelectFile(f)
    \/ StartTranslation
    \/ ExportDocument

SpecApp == InitWindow /\ [][NextApp]_vars

(***************************************************************************)
(* Two runs at once.  A run of a document without text clears              *)
(* is_translating twice (lines 202 and 353); a run started between the two *)
(* is still running at the second, and start_translation then accepts one  *)
(* more.  The specification begins where both are started and the first    *)
(* run has ended; the user does nothing from then on but export.           *)
(***************************************************************************)
MaxOverlapNodes == 2

\* the documents the two runs read: at most MaxOverlapNodes children, each
\* a paragraph with text
OverlapFiles ==
    { f \in Files :
        /\ f.readable
        /\ Len(f.body) <= MaxOverlapNodes
        /\ \A k \in DOMAIN f.body : f.body[k] = FileNode(k, DOMAIN f.body) }

\* run 1 read the empty document and has ended (lines 182-204, 353-354);
\* its second root.after(0, enable translate_btn) is still queued; runs 2
\* and 3 were started by start_translation (lines 164-175) for the file
\* chosen since, and their threads have not run yet
InitOverlap ==
    /\ input_file \in OverlapFiles
    /\ translated_doc = 0
    /\ original_doc = 1
    /\ is_translating = TRUE
    /\ max_workers = AppMaxWorkers
    /\ max_retries = AppMaxRetries
    /\ translate_btn = "disabled"
    /\ export_btn = "disabled"
    /\ uiq = <<"translate_btn">>
    /\ doc = [r \in Runs |-> <<>>]
    /\ loaded = [r \in Runs |-> <<>>]
    /\ paragraph_data = [r \in Runs |-> <<>>]
    /\ futures = [r \in Runs |-> <<>>]
    /\ results = [r \in Runs |-> <<>>]
    /\ completed_count = [r \in Runs |-> 0]
    /\ progress = [r \in Runs |-> IF r = 1 THEN <<0, 0>> ELSE <<>>]
    /\ translation_map = [r \in Runs |-> <<>>]
    /\ doc_paragraphs = [r \in Runs |-> <<>>]
    /\ parent = [r \in Runs |-> 0]
    /\ doc_idx = [r \in Runs |-> 0]
    /\ success_count = [r \in Runs |-> 0]
    /\ failed_count = [r \in Runs |-> 0]
    /\ summary = [r \in Runs |-> NoSummary]
    /\ saved = None
    /\ aborted = {}
    /\ pc = [r \in Runs |-> IF r = 1 THEN "done" ELSE "read"]

NextOverlap ==
    \/ \E r \in Runs : RunStepOnce(r)
    \/ \E r \in Runs : MutateRaise(r)
    \/ UiCallback
    \/ ExportDocument

SpecOverlap == InitOverlap /\ [][NextOverlap]_vars

(***************************************************************************)
(* The loop of lines 221-229 on its own, for documents of many units: the  *)
(* pool is left out, an outcome arrives and the loop stores, counts and    *)
(* reports it.                                                             *)
(***************************************************************************)
\* a document of n paragraphs, all of them with text
LongDoc(n) == [k \in 1..n |-> FileNode(k, 1..n)]

\* a run of translate_document that has read a document of n units and has
\* reached the as_completed loop (line 221) with no outcome collected yet
InitTally ==
    \E n \in 1..MaxTotal :
        /\ input_file = [selected |-> TRUE, readable |-> TRUE, body |-> LongDoc(n)]
        /\ translated_doc = 0
        /\ original_doc = 1
        /\ is_translating = TRUE
        /\ max_workers = DefaultMaxWorkers
        /\ max_retries = DefaultMaxRetries
        /\ translate_btn = "disabled"
        /\ export_btn = "disabled"
        /\ uiq = <<>>
        /\ doc = [r \in Runs |-> IF r = 1 THEN LongDoc(n) ELSE <<>>]
        /\ loaded = [r \in Runs |-> IF r = 1 THEN LongDoc(n) ELSE <<>>]
        /\ paragraph_data =
              [r \in Runs |-> IF r = 1 THEN Extract(LongDoc(n)) ELSE <<>>]
        /\ futures = [r \in Runs |-> <<>>]
        /\ results = [r \in Runs |-> <<>>]
        /\ completed_count = [r \in Runs |-> 0]
        /\ progress = [r \in Runs |-> IF r = 1 THEN <<0, 0>> ELSE <<>>]
        /\ translation_map = [r \in Runs |-> <<>>]
        /\ doc_paragraphs = [r \in Runs |-> <<>>]
        /\ parent = [r \in Runs |-> 0]
        /\ doc_idx = [r \in Runs |-> 0]
        /\ success_count = [r \in Runs |-> 0]
        /\ failed_count = [r \in Runs |-> 0]
        /\ summary = [r \in Runs |-> NoSummary]
        /\ saved = None
        /\ aborted = {}
        /\ pc = [r \in Runs |-> IF r = 1 THEN "collect" ELSE "idle"]

\* lines 222-229 for the next outcome to arrive, here the one of the unit
\* after the last collected: results[result['index']] = result,
\* completed_count += 1, progress = int(completed_count / total * 100),
\* update_ui(..., progress)
Tally(r) ==
    /\ pc[r] = "collect"
    /\ completed_count[r] < total(r)
    /\ LET i    == completed_count[r]
           text == paragraph_data[r][i + 1].text
       IN  results' = [results EXCEPT ![r] =
                          (i :> SuccessOutcome(i, text, Translate(text))) @@ @]
    /\ completed_count' = [completed_count EXCEPT ![r] = @ + 1]
    /\ progress' = [progress EXCEPT ![r] =
          Append(@, Percent(completed_count[r] + 1, total(r)))]
    /\ UNCHANGED <<config, history, buttons, uiq, attrs, doc, pc, extract, futures,
                   mutation, summary>>

NextTally == \E r \in Runs : Tally(r)

SpecTally == InitTally /\ [][NextTally]_vars

\* One run under fair scheduling: the thread of the run and the pool threads
\* are operating-system threads, so a step of the run that stays possible is
\* taken (a provider call returns or raises, a sleep ends, as_completed
\* yields), and the Tk main loop runs the callbacks queued with root.after.
FairSpec ==
    /\ Spec
    /\ \A r \in Runs : WF_vars(RunStep(r))
    /\ WF_vars(UiCallback)

(***************************************************************************)
(* Properties.                                                             *)
(***************************************************************************)
\* the run reached its summary (line 340): it finished normally
FinishedNormally(r) == summary[r] # NoSummary

\* the run has left the with block of the executor (line 246 onwards)
Reconciled(r) == parent[r] # 0

\* a paragraph that has text once trimmed
Translatable(nd) == nd.tag = "p" /\ Strip(nd.text) # <<>>

\* a child the run inserted: an element the file did not have
IsNew(r, nd) == nd.id > Len(loaded[r])

NewMark == [id |-> 0, tag |-> "p", text |-> <<>>]

\* the body with every inserted child replaced by NewMark
Shape(r, body) ==
    [k \in 1..Len(body) |->
        IF IsNew(r, body[k]) THEN [NewMark EXCEPT !.tag = body[k].tag]
        ELSE body[k]]

\* the input from its k-th child on, a NewMark after every translatable one
RECURSIVE ExpectedFrom(_, _)
ExpectedFrom(input, k) ==
    IF k > Len(input) THEN <<>>
    ELSE <<input[k]>>
         \o (IF Translatable(input[k]) THEN <<NewMark>> ELSE <<>>)
         \o ExpectedFrom(input, k + 1)

\* C1: when a run has finished normally, its document is the input with
\* exactly one new paragraph right after each paragraph that had text, no new
\* paragraph anywhere else, and the new paragraphs are distinct elements.
C1_Reassembly ==
    \A r \in Runs :
        FinishedNormally(r) =>
            /\ Shape(r, doc[r]) = ExpectedFrom(loaded[r], 1)
            /\ \A j, k \in 1..Len(doc[r]) : doc[r][j].id = doc[r][k].id => j = k

\* the document of positions [0,1,2,3] of which 1 and 3 have text, after a
\* run in which the first unit failed and the second succeeded
C1_Witness ==
    /\ pc[1] = "done"
    /\ FinishedNormally(1)
    /\ Len(loaded[1]) = 4
    /\ { k \in 1..4 : Translatable(loaded[1][k]) } = {2, 4}
    /\ Len(doc[1]) = 6
    /\ ~results[1][0].success
    /\ results[1][1].success

\* the futures as_completed has yielded
Yielded(r) == { k \in 1..Len(futures[r]) : futures[r][k].st = "yielded" }

\* the dispatch of the run is over: every unit submitted, every future yielded
DispatchOver(r) ==
    /\ pc[r] \notin {"read", "bind", "empty", "empty_after", "except", "submit"}
    /\ total(r) > 0
    /\ Drained(r)

\* C2: the loop counts one outcome per yielded future; once the dispatch is
\* over there are exactly n outcomes, and each unit index 0..n-1 was submitted
\* once and is the index of exactly one outcome.
C2_ExactlyOnce ==
    \A r \in Runs :
        /\ completed_count[r] = Cardinality(Yielded(r))
        /\ Len(futures[r]) <= total(r)
        /\ DispatchOver(r) =>
              /\ completed_count[r] = total(r)
              /\ Len(futures[r]) = total(r)
              /\ \A i \in 0..(total(r) - 1) :
                    /\ Cardinality({ k \in 1..Len(futures[r]) :
                                       futures[r][k].index = i }) = 1
                    /\ Cardinality({ k \in Yielded(r) :
                                       futures[r][k].result.index = i }) = 1

\* two units on a pool of one thread, both outcomes collected
C2_Witness ==
    /\ pc[1] = "collect"
    /\ DispatchOver(1)
    /\ total(1) = 2
    /\ max_workers = 1
    /\ completed_count[1] = 2

\* the futures whose call has produced its outcome
Done(r) == { k \in 1..Len(futures[r]) : futures[r][k].st \in {"finished", "yielded"} }

\* C3: a call that returns the translation made one provider call more than it
\* had failures (one backoff per failure), fewer than max_retries of them; a
\* call that ends with the error made exactly max_retries provider calls; no
\* call ever makes more than max_retries provider calls.
C3_Retry ==
    \A r \in Runs : \A k \in 1..Len(futures[r]) :
        LET f == futures[r][k]
        IN  /\ f.calls <= max_retries
            /\ (k \in Done(r) /\ f.result.success) =>
                  /\ f.calls = Len(f.waits) + 1
                  /\ Len(f.waits) < max_retries
                  /\ f.result.translated = Translate(f.para_text)
            /\ (k \in Done(r) /\ ~f.result.success) =>
                  /\ f.calls = max_retries
                  /\ f.result.error # None

\* with max_retries = 5: one call succeeded at its fifth attempt, another
\* failed five times
C3_Witness ==
    /\ max_retries = 5
    /\ Done(1) = {1, 2}
    /\ futures[1][1].result.success
    /\ futures[1][1].calls = 5
    /\ ~futures[1][2].result.success
    /\ futures[1][2].calls = 5

\* the 0-based places, among the paragraphs of the input, of those with text
UnitPositions(r) ==
    { d \in 0..(Len(Paragraphs(loaded[r])) - 1) :
        Strip(Paragraphs(loaded[r])[d + 1].text) # <<>> }

\* C4: once the dispatch has drained and the map is built, translation_map has
\* one entry per text unit and no other: its keys are the document positions
\* of the paragraphs with text, and the entry of a position is the outcome of
\* the unit of that position (its text, its index), as collected.
C4_Reconciled ==
    \A r \in Runs :
        Reconciled(r) =>
            /\ DOMAIN translation_map[r] = UnitPositions(r)
            /\ Cardinality(DOMAIN translation_map[r]) = total(r)
            /\ \A d \in DOMAIN translation_map[r] :
                  LET out == translation_map[r][d]
                  IN  /\ out.original = Strip(Paragraphs(loaded[r])[d + 1].text)
                      /\ out.index = Cardinality({ e \in UnitPositions(r) : e < d })
                      /\ \E k \in Yielded(r) : futures[r][k].result = out

\* two units whose positions differ from their indices, the map built
C4_Witness ==
    /\ Reconciled(1)
    /\ pc[1] = "mutate"
    /\ DOMAIN translation_map[1] = {1, 2}
    /\ translation_map[1][2].index = 1
    /\ translation_map[1][1].original # translation_map[1][2].original

\* C5: at most max_workers calls of translate_paragraph are running (calling
\* the provider or sleeping in the backoff) at any time.
C5_Bounded ==
    \A r \in Runs : Cardinality(InFlight(r)) <= max_workers

\* the pool of one thread is taken by a call that sleeps while another call
\* waits in the queue
C5_Witness ==
    /\ max_workers = 1
    /\ Len(futures[1]) = 2
    /\ futures[1][1].st = "sleep"
    /\ futures[1][2].st = "queued"

\* the run has ended: its thread is in or past the finally block
Ended(r) == pc[r] \in {"finally", "finally_after", "done"}

PlaceOf(body, elem) == CHOOSE p \in 1..Len(body) : body[p].id = elem

\* the elements of the input that are paragraphs with text, in document order
UnitElements(r) ==
    LET units == SelectSeq(loaded[r], Translatable)
    IN  [k \in 1..Len(units) |-> units[k].id]

\* C7: after a run that finished normally, the source paragraph of every failed
\* outcome is followed by exactly one inserted paragraph, whose text is the
\* failure marker around the error of the outcome (which names the reason the
\* provider gave): it is neither missing nor empty.
C7_FailureVisible ==
    \A r \in Runs :
        FinishedNormally(r) =>
            \A k \in 1..Len(UnitElements(r)) :
                LET out  == results[r][k - 1]
                    p    == PlaceOf(doc[r], UnitElements(r)[k])
                IN  ~out.success =>
                        /\ p + 1 <= Len(doc[r])
                        /\ IsNew(r, doc[r][p + 1])
                        /\ doc[r][p + 1].tag = "p"
                        /\ doc[r][p + 1].text =
                              <<"[translation failed: ">> \o out.error \o <<"]">>
                        /\ doc[r][p + 1].text # <<>>
                        /\ out.error[Len(out.error)] \in Reasons
                        /\ (p + 2 <= Len(doc[r]) => ~IsNew(r, doc[r][p + 2]))

\* a run that finished normally with two failed units
C7_Witness ==
    /\ FinishedNormally(1)
    /\ total(1) = 2
    /\ ~results[1][0].success
    /\ ~results[1][1].success
    /\ Len(doc[1]) = Len(loaded[1]) + 2

\* C8 as stated: the wait after the failed attempt of index i is
\* retry_delay * 2^i, and with max_retries = 5 a call whose every attempt fails
\* waits 1, 2, 4, 8, 16.
C8_AsStated ==
    \A r \in Runs : \A k \in 1..Len(futures[r]) :
        LET f == futures[r][k]
        IN  /\ \A j \in 1..Len(f.waits) : f.waits[j] = retry_delay * 2 ^ (j - 1)
            /\ (max_retries = DefaultMaxRetries /\ k \in Done(r) /\ ~f.result.success)
                  => f.waits = <<1, 2, 4, 8, 16>>

\* C8, amended: the wait after the failed attempt of index i is
\* retry_delay * 2^i when another attempt follows; nothing is waited after the
\* last attempt, so a call whose every attempt fails waits max_retries - 1
\* times: 1, 2, 4, 8 with max_retries = 5 and retry_delay = 1.
C8_Backoff ==
    \A r \in Runs : \A k \in 1..Len(futures[r]) :
        LET f == futures[r][k]
        IN  /\ \A j \in 1..Len(f.waits) : f.waits[j] = retry_delay * 2 ^ (j - 1)
            /\ Len(f.waits) <= max_retries - 1
            /\ (k \in Done(r) /\ ~f.result.success)
                  => Len(f.waits) = max_retries - 1
            /\ (max_retries = DefaultMaxRetries /\ k \in Done(r) /\ ~f.result.success)
                  => f.waits = <<1, 2, 4, 8>>

\* with max_retries = 5, a call that failed five times
C8_Witness ==
    /\ max_retries = DefaultMaxRetries
    /\ 1 \in Done(1)
    /\ ~futures[1][1].result.success
    /\ futures[1][1].calls = 5
    /\ Len(futures[1][1].waits) = 4

\* C9: the summary of a run that finished normally counts the outcomes with
\* success = True and those with success = False, and the two counts add up
\* to the number of text units, which is the number of inserted paragraphs.
C9_Summary ==
    \A r \in Runs :
        FinishedNormally(r) =>
            /\ summary[r].success =
                  Cardinality({ i \in DOMAIN results[r] : results[r][i].success })
            /\ summary[r].failed =
                  Cardinality({ i \in DOMAIN results[r] : ~results[r][i].success })
            /\ summary[r].success + summary[r].failed = total(r)
            /\ total(r) = Cardinality(UnitPositions(r))
            /\ total(r) = Len(doc[r]) - Len(loaded[r])

\* a summary of one success and one failure
C9_Witness ==
    /\ pc[1] = "finally"
    /\ summary[1] = [success |-> 1, failed |-> 1]
    /\ Cardinality(DOMAIN results[1]) = 2

\* C10: the document differs from what was read only once the loop over the
\* outcomes is over and the pool has shut down: every submitted unit has its
\* outcome collected, no call is running or queued, and the thread of the run
\* is in the mutation pass or past it.  While units are submitted and
\* collected the document is as it was read.
C10_MutationAfterDispatch ==
    \A r \in Runs :
        /\ pc[r] \in {"bind", "empty", "empty_after", "submit", "collect", "except"}
              => doc[r] = loaded[r]
        /\ doc[r] # loaded[r] =>
              /\ pc[r] \in {"mutate", "summary", "finally", "finally_after", "done"}
              /\ Len(futures[r]) = total(r)
              /\ Drained(r)
              /\ completed_count[r] = total(r)
              /\ InFlight(r) = {}

\* the first insertion of the mutation pass has been made, the second not yet
C10_Witness ==
    /\ pc[1] = "mutate"
    /\ total(1) = 2
    /\ Len(doc[1]) = Len(loaded[1]) + 1
    /\ doc_idx[1] >= 0

Followed(r, body, d) ==
    LET p == PlaceOf(body, doc_paragraphs[r][d + 1])
    IN  p < Len(body) /\ IsNew(r, body[p + 1])

\* C12: the mutation pass makes its insertions in strictly descending order
\* of original paragraph position: a step of the pass that changes the
\* document adds one child, for the position d the loop is at, which is a
\* position of the map; the positions that had their child before the step
\* are exactly those above d, and after the step those from d up.
C12_Descending ==
    [][\A r \in Runs :
          (pc[r] = "mutate" /\ doc'[r] # doc[r]) =>
              LET d == doc_idx[r]
              IN  /\ d \in DOMAIN translation_map[r]
                  /\ Len(doc'[r]) = Len(doc[r]) + 1
                  /\ doc_idx'[r] < d
                  /\ \A e \in DOMAIN translation_map[r] :
                        /\ Followed(r, doc[r], e) <=> e > d
                        /\ Followed(r, doc'[r], e) <=> e >= d]_vars

\* of two units, the one further down the document has its inserted child and
\* the one further up has not
C12_Witness ==
    /\ pc[1] = "mutate"
    /\ \E e1, e2 \in DOMAIN translation_map[1] :
          /\ e1 < e2
          /\ Followed(1, doc[1], e2)
          /\ ~Followed(1, doc[1], e1)

\* the run read the document of positions [0,1,2,3] of which 1 and 3 have text
TwoOfFour(r) ==
    /\ Len(loaded[r]) = 4
    /\ { k \in 1..4 : Translatable(loaded[r][k]) } = {2, 4}

C14_OutcomeShape ==
    \A r \in Runs :
        /\ \A k \in Done(r) :
              LET o == futures[r][k].result
              IN  /\ o.index = k - 1
                  /\ o.original = paragraph_data[r][k].text
                  /\ \/ o.success /\ o.translated # None /\ o.error = None
                     \/ ~o.success /\ o.translated = None /\ o.error # None
                  /\ o.success => o.translated = Translate(o.original)
        /\ \A i \in DOMAIN results[r] :
              LET o == results[r][i]
              IN  /\ o.index = i
                  /\ o.original = paragraph_data[r][i + 1].text
                  /\ (o.translated = None) # (o.error = None)
                  /\ o.success <=> o.error = None

\* two calls have returned and as_completed has yielded neither yet: one
\* with a translation, one with the error of a single attempt
C14_Witness ==
    /\ pc[1] = "collect"
    /\ max_retries = 1
    /\ Done(1) = {1, 2}
    /\ Yielded(1) = {}
    /\ futures[1][1].result.success
    /\ ~futures[1][2].result.success
    /\ futures[1][2].result.translated = None

\* the children of the body the file already had, in the order of the body
Originals(r, body) ==
    LET Old(nd) == ~IsNew(r, nd)
    IN  SelectSeq(body, Old)

\* C15: the mutation pass leaves every node that was there before the run as
\* it was: at every moment of the run the children of the document that are
\* not insertions of the run are the children that were read, each with its
\* identity, kind and text, none missing, in the same order; the document
\* only grows, and no element stands in it twice.
C15_Frame ==
    \A r \in Runs :
        /\ pc[r] # "read" => Originals(r, doc[r]) = loaded[r]
        /\ Len(doc[r]) >= Len(loaded[r])
        /\ \A j, k \in 1..Len(doc[r]) : doc[r][j].id = doc[r][k].id => j = k

\* a finished pass over a document with a table and a paragraph without text:
\* the table stands after an inserted paragraph
C15_Witness ==
    /\ pc[1] = "summary"
    /\ Len(doc[1]) > Len(loaded[1])
    /\ \E j, k \in 1..Len(doc[1]) :
          /\ j < k
          /\ IsNew(1, doc[1][j])
          /\ doc[1][k].tag = "tbl"
    /\ \E k \in 1..Len(doc[1]) : doc[1][k].tag = "p" /\ doc[1][k].text = <<>>

\* the progress events of the dispatch so far: what update_ui was given at
\* line 229, after the two events that precede the dispatch (lines 181, 207)
DispatchEvents(r) == SubSeq(progress[r], 3, 2 + completed_count[r])

\* C16 as stated: while outcomes are collected there is one progress event
\* per outcome; after the k-th outcome the counter is k, which is the number
\* of entries in results, and the percent reported with it is
\* floor(100 * k / total); the percents are within 0..100, never decrease,
\* and the last one is 100.
C16_AsStated ==
    \A r \in Runs :
        (pc[r] = "collect" /\ total(r) >= 1) =>
            LET k  == completed_count[r]
                ev == DispatchEvents(r)
            IN  /\ Len(progress[r]) = 2 + k
                /\ Cardinality(DOMAIN results[r]) = k
                /\ k <= total(r)
                /\ \A j \in 1..k :
                      /\ ev[j] = (100 * j) \div total(r)
                      /\ ev[j] \in 0..100
                      /\ j > 1 => ev[j - 1] <= ev[j]
                /\ k = total(r) => ev[k] = 100

\* the run ended in its handler after a round of its mutation pass had
\* inserted a paragraph: the document it worked on is left partly mutated
PartlyMutated(r) ==
    /\ r \in aborted
    /\ parent[r] # 0
    /\ \E i \in DOMAIN translation_map[r] :
          doc_idx[r] < i /\ i < Len(doc_paragraphs[r])

\* C17 as stated: a run that ends in the handler of line 347 never assigns
\* translated_doc and never queues the enabling of the export button, and
\* the document such a run left partly mutated is never what
\* export_document writes.
C17_AsStated ==
    \A r \in Runs :
        /\ r \in aborted => summary[r] = NoSummary
        /\ PartlyMutated(r) =>
              ~(translated_doc = parent[r] /\ saved = doc[parent[r]])

\* the thread of run r is started and has not yet executed an assignment
\* self.is_translating = False (line 202 on the path without units, line
\* 353 on the others)
BeforeClearing(r) ==
    \/ pc[r] \in {"read", "bind", "empty", "submit", "collect", "mutate",
                  "summary", "except"}
    \/ pc[r] = "finally" /\ (r \in aborted \/ summary[r] # NoSummary)

\* C18 as stated: at most one run is active at any time; start_translation
\* never starts a thread while a thread started before has not yet reached
\* the point where it sets is_translating to False.
C18_AsStated == Cardinality({ r \in Runs : BeforeClearing(r) }) <= 1

\* the run took the path of lines 200-204: the document it read has no
\* paragraph with text
ZeroUnitPath(r) ==
    /\ pc[r] \in {"empty", "empty_after", "finally", "finally_after", "done"}
    /\ r \notin aborted
    /\ paragraph_data[r] = <<>>

DispatchingOrMutating(r) == pc[r] \in {"submit", "collect", "mutate"}

\* C20 as stated, in what it says of export_document: while is_translating
\* is True and a run is dispatching or mutating, export_document cannot be
\* triggered, its button being disabled.
C20_AsStated ==
    \A r \in Runs :
        (is_translating /\ DispatchingOrMutating(r)) =>
            ~(export_btn = "normal" /\ translated_doc # 0)
====
